---- MODULE Spec2Model ----
(***************************************************************************)
(* Model of the conversation analysis engine of the semantic analysis      *)
(* service: EmotionAnalyzer (app/services/emotion_analyzer.py) driving the *)
(* lazily loaded classifiers of EmotionSentimentModels                     *)
(* (app/models/ml_models.py).                                              *)
(*                                                                         *)
(* Numbers.  Python floats are modelled exactly where the code only adds,  *)
(* multiplies and divides: a float is a fraction [num, den] with den > 0.  *)
(* Classifier scores are tenths, so a valence or an arousal is a number of *)
(* hundredths.  Where the code takes a square root or a logarithm the      *)
(* value is kept in thousandths, rounded down.  The 1e-10 added inside the *)
(* logarithm of the entropy is below that resolution and is left out.      *)
(* Binary rounding of floats is not modelled.                              *)
(***************************************************************************)
EXTENDS Integers, Sequences, FiniteSets, TLC

VARIABLES
    pc,                 \* position of the caller in analyze_conversation
    messages,           \* the argument of the call in progress
    texts,              \* the filtered contents (line 28)
    emotion_results,    \* what analyze_emotions_batch returned
    sentiment_results,  \* what analyze_sentiment_batch returned
    outcome,            \* "none" | "returned" | "raised"
    result,             \* the dict returned to the caller
    raised,             \* str() of the exception that left the call
    provider_exception, \* str() of what a batch operation raised in this call
    provider_calls,     \* batch operations invoked by this call, with len(texts)
    emotion_classifier, \* EmotionSentimentModels._emotion_classifier is not None
    sentiment_classifier, \* EmotionSentimentModels._sentiment_classifier is not None
    initialized,        \* EmotionSentimentModels._initialized
    initialized_on_entry, \* _initialized when the latest batch operation was entered
    load_attempted,     \* the latest batch operation ran the load (past line 22)
    classifier_invoked, \* classifier the latest batch operation invoked, or "none"
    retained_error      \* the dict _empty_analysis built for an earlier call
                        \* holds an 'error' key (the message is abstracted)

vars == <<pc, messages, texts, emotion_results, sentiment_results, outcome,
          result, raised, provider_exception, provider_calls, emotion_classifier,
          sentiment_classifier, initialized, initialized_on_entry,
          load_attempted, classifier_invoked, retained_error>>

(***************************************************************************)
(* Bounds of the model.                                                    *)
(***************************************************************************)
MaxMsgs == 2        \* longest message list passed to analyze_conversation
MaxResults == 2     \* longest list a classifier returns

(***************************************************************************)
(* Fractions.                                                              *)
(***************************************************************************)
Rat(n, d) == [num |-> n, den |-> d]

Zero == Rat(0, 1)

One == Rat(1, 1)

RatEq(a, b) == a.num * b.den = b.num * a.den

RatLT(a, b) == a.num * b.den < b.num * a.den

RatLE(a, b) == a.num * b.den <= b.num * a.den

RatAdd(a, b) == Rat(a.num * b.den + b.num * a.den, a.den * b.den)

RECURSIVE RatSum(_)
RatSum(s) ==
    IF s = <<>> THEN Rat(0, 1) ELSE RatAdd(s[1], RatSum(Tail(s)))

RECURSIVE SumSeq(_)
SumSeq(s) ==
    IF s = <<>> THEN 0 ELSE s[1] + SumSeq(Tail(s))

Min(a, b) == IF a < b THEN a ELSE b

Max(a, b) == IF a > b THEN a ELSE b

\* np.mean of a non-empty list of fractions
Mean(s) ==
    LET t == RatSum(s) IN Rat(t.num, t.den * Len(s))

\* floor of the square root, by bisection on lo..hi
RECURSIVE ISqrtIn(_, _, _)
ISqrtIn(x, lo, hi) ==
    IF lo >= hi THEN lo
    ELSE LET mid == (lo + hi + 1) \div 2 IN
         IF mid * mid <= x THEN ISqrtIn(x, mid, hi) ELSE ISqrtIn(x, lo, mid - 1)

ISqrt(x) == ISqrtIn(x, 0, Min(x, 40000))

\* np.log in thousandths, for the integers a distribution is made of
LnMilli ==
    <<0, 693, 1099, 1386, 1609, 1792, 1946, 2079, 2197, 2303,
      2398, 2485, 2565, 2639, 2708, 2773, 2833, 2890, 2944, 2996,
      3045, 3091, 3135, 3178, 3219, 3258, 3296, 3332, 3367, 3401,
      3434, 3466, 3497, 3526, 3555, 3584, 3611, 3638, 3664, 3689,
      3714, 3738, 3761, 3784, 3807, 3829, 3850, 3871, 3892, 3912>>

\* log of a positive fraction, thousandths
LogMilli(p) == LnMilli[p.num] - LnMilli[p.den]

(***************************************************************************)
(* Strings and message records.  A string is a sequence of characters; a   *)
(* message is a dict that may or may not hold the key 'content', whose     *)
(* value is a str or None (JSON null: AnalysisRequest.messages is          *)
(* List[Dict]).                                                            *)
(***************************************************************************)
Str(chars) == [kind |-> "str", chars |-> chars]

NoneValue == [kind |-> "NoneType", chars |-> <<>>]

Whitespace == {" "}

\* str.strip(): drop leading and trailing whitespace
RECURSIVE LStrip(_)
LStrip(s) ==
    IF s # <<>> /\ s[1] \in Whitespace THEN LStrip(Tail(s)) ELSE s

RECURSIVE RStrip(_)
RStrip(s) ==
    IF s # <<>> /\ s[Len(s)] \in Whitespace
    THEN RStrip(SubSeq(s, 1, Len(s) - 1)) ELSE s

strip(s) == RStrip(LStrip(s))

\* msg.get("content", "")
get_content(msg) == IF msg.has THEN msg.content ELSE Str(<<>>)

Contents == { Str(<<" ">>), Str(<<" ", "o", "k", " ">>), NoneValue }

Messages == [has : {TRUE}, content : Contents] \cup {[has |-> FALSE, content |-> Str(<<>>)]}

MessageLists == UNION { [1..n -> Messages] : n \in 0..MaxMsgs }

\* line 28: the comprehension raises AttributeError on the first content
\* that has no strip method
FilterRaises(msgs) ==
    \E i \in 1..Len(msgs) : get_content(msgs[i]).kind # "str"

\* the filter without the trimming
IsNonBlankUntrimmed(msg) == get_content(msg).chars # <<>>

IsNonBlank(msg) == strip(get_content(msg).chars) # <<>>

RECURSIVE FilterTexts(_)
FilterTexts(msgs) ==
    IF msgs = <<>> THEN <<>>
    ELSE IF IsNonBlank(msgs[1])
         THEN <<get_content(msgs[1]).chars>> \o FilterTexts(Tail(msgs))
         ELSE FilterTexts(Tail(msgs))

(***************************************************************************)
(* Classifier outputs.  An emotion result is the list of {label, score}    *)
(* the pipeline returns for one text (top_k=None), in the pipeline's own   *)
(* order; a sentiment result is one {label, score}.  Scores are tenths.    *)
(***************************************************************************)
E(l, s) == [label |-> l, score |-> s]

EmotionOutputs ==
    { <<>>,                              \* no scores at all
      <<E("joy", 5), E("anger", 5)>>,    \* two labels share the maximum
      <<E("anger", 0), E("joy", 0)>>,    \* every score is zero
      <<E("sadness", 10)>> }

\* the last one is out of range: a confidence of 2.0
SentimentOutputs ==
    { E("positive", 4), E("negative", 4), E("neutral", 9), E("POSITIVE", 20) }

EmotionResultLists == UNION { [1..n -> EmotionOutputs] : n \in 0..MaxResults }

SentimentResultLists == UNION { [1..n -> SentimentOutputs] : n \in 0..MaxResults }

\* str(e) of what a classifier or a model load may raise (MemoryError() and
\* TimeoutError() carry no message)
ProviderErrors == { "", "CUDA out of memory" }

LoadErrors == { "model download failed" }

(***************************************************************************)
(* Python dicts keep insertion order: a dict is a sequence of              *)
(* [label, score] with distinct labels.                                    *)
(***************************************************************************)
Keys(d) == { d[i].label : i \in 1..Len(d) }

IndexOf(d, k) == CHOOSE i \in 1..Len(d) : d[i].label = k

Lookup(d, k) == d[IndexOf(d, k)].score

\* d[k] = v
DictSet(d, k, v) ==
    IF k \in Keys(d)
    THEN [d EXCEPT ![IndexOf(d, k)] = E(k, v)]
    ELSE Append(d, E(k, v))

\* line 41: {e["label"]: e["score"] for e in emotions}
RECURSIVE DictOfInto(_, _)
DictOfInto(d, emotions) ==
    IF emotions = <<>> THEN d
    ELSE DictOfInto(DictSet(d, emotions[1].label, emotions[1].score), Tail(emotions))

DictOf(emotions) == DictOfInto(<<>>, emotions)

\* the classifier scores of a dict, tenths, as fractions
Tenths(d) == [i \in 1..Len(d) |-> E(d[i].label, Rat(d[i].score, 10))]

\* max(d, key=d.get) over a non-empty dict of fractions: the first key, in
\* iteration order, whose value no other exceeds
ArgMax(d) ==
    d[CHOOSE i \in 1..Len(d) :
        /\ \A j \in 1..Len(d) : ~RatLT(d[i].score, d[j].score)
        /\ \A j \in 1..(i - 1) : RatLT(d[j].score, d[i].score)].label

(***************************************************************************)
(* Message-level reduction (lines 62-116).                                 *)
(***************************************************************************)
valence_map ==
    [joy |-> 8, surprise |-> 3, neutral |-> 0, fear |-> -5,
     sadness |-> -7, anger |-> -8, disgust |-> -6]

arousal_map ==
    [joy |-> 7, surprise |-> 9, neutral |-> 1, fear |-> 8,
     sadness |-> 3, anger |-> 9, disgust |-> 6]

\* weights.get(emotion, 0)
Weight(weights, emotion) ==
    IF emotion \in DOMAIN weights THEN weights[emotion] ELSE 0

RECURSIVE WeightedSum(_, _)
WeightedSum(weights, d) ==
    IF d = <<>> THEN 0
    ELSE d[1].score * Weight(weights, d[1].label) + WeightedSum(weights, Tail(d))

_calculate_valence(emotion_scores) ==
    Rat(WeightedSum(valence_map, emotion_scores), 100)

_calculate_arousal(emotion_scores) ==
    Rat(WeightedSum(arousal_map, emotion_scores), 100)

\* str.lower() on the labels a sentiment pipeline emits
lower(label) ==
    CASE label = "POSITIVE" -> "positive"
      [] label = "NEGATIVE" -> "negative"
      [] label = "NEUTRAL" -> "neutral"
      [] OTHER -> label

_normalize_sentiment(sentiment) ==
    LET label == lower(sentiment.label)
        score == sentiment.score
    IN  IF label = "positive" THEN Rat(score, 10)
        ELSE IF label = "negative" THEN Rat(-score, 10)
        ELSE Zero

\* One pass of the loop of lines 40-53, for the i-th pair of the zip
\* (i counts from 0).  max() of an empty dict raises ValueError.
MessageRaises(emotions, sentiment) == DictOf(emotions) = <<>>

MessageAnalysis(i, emotions, sentiment) ==
    LET emotion_scores == DictOf(emotions)
        dominant_emotion == ArgMax(Tenths(emotion_scores))
    IN  [message_index |-> i,
         emotion |-> dominant_emotion,
         emotion_confidence |-> Rat(Lookup(emotion_scores, dominant_emotion), 10),
         emotion_scores |-> emotion_scores,
         sentiment |-> sentiment.label,
         sentiment_score |-> _normalize_sentiment(sentiment),
         valence |-> _calculate_valence(emotion_scores),
         arousal |-> _calculate_arousal(emotion_scores)]

(***************************************************************************)
(* Lines 40-53: the loop over zip(emotion_results, sentiment_results).     *)
(* zip stops at the shorter list.  LoopError is the str() of the exception *)
(* the loop raises, or NoError.                                            *)
(***************************************************************************)
NoError == "<no exception>"

ZipLen(es, ss) == Min(Len(es), Len(ss))

LoopRaises(es, ss) ==
    \E i \in 1..ZipLen(es, ss) : MessageRaises(es[i], ss[i])

LoopError(es, ss) ==
    IF LoopRaises(es, ss) THEN "max() arg is an empty sequence" ELSE NoError

MessageAnalyses(es, ss) ==
    [i \in 1..ZipLen(es, ss) |-> MessageAnalysis(i - 1, es[i], ss[i])]

(***************************************************************************)
(* Conversation-level aggregation (lines 118-218).                         *)
(***************************************************************************)
\* lines 127-130: all_emotions[emotion] = all_emotions.get(emotion, 0) + score
Get0(d, k) == IF k \in Keys(d) THEN Lookup(d, k) ELSE 0

RECURSIVE AddScores(_, _)
AddScores(all, scores) ==
    IF scores = <<>> THEN all
    ELSE AddScores(DictSet(all, scores[1].label, Get0(all, scores[1].label) + scores[1].score),
                   Tail(scores))

RECURSIVE AllEmotionsInto(_, _)
AllEmotionsInto(all, message_analyses) ==
    IF message_analyses = <<>> THEN all
    ELSE AllEmotionsInto(AddScores(all, message_analyses[1].emotion_scores),
                         Tail(message_analyses))

AllEmotions(message_analyses) == AllEmotionsInto(<<>>, message_analyses)

RECURSIVE SumValues(_)
SumValues(d) ==
    IF d = <<>> THEN 0 ELSE d[1].score + SumValues(Tail(d))

\* line 134: {k: v / total for k, v in all_emotions.items()}
Normalize(all, total) ==
    [i \in 1..Len(all) |-> E(all[i].label, Rat(all[i].score, total))]

\* a per-label mean over the messages instead of the renormalized sum
EmotionDistributionMean(message_analyses) ==
    LET all == AllEmotions(message_analyses)
    IN  [i \in 1..Len(all) |->
            E(all[i].label, Rat(all[i].score, 10 * Len(message_analyses)))]

EmotionDistribution(message_analyses) ==
    LET all == AllEmotions(message_analyses)
    IN  Normalize(all, SumValues(all))

\* lines 133-135: dividing by a zero total raises ZeroDivisionError; max()
\* of an empty distribution raises ValueError
AggregateError(message_analyses) ==
    LET all == AllEmotions(message_analyses)
    IN  IF all = <<>> THEN "max() arg is an empty sequence"
        ELSE IF SumValues(all) = 0 THEN "float division by zero"
        ELSE NoError

\* line 138: np.std of the valences (hundredths), in thousandths
RECURSIVE SumSquares(_)
SumSquares(s) ==
    IF s = <<>> THEN 0 ELSE s[1] * s[1] + SumSquares(Tail(s))

StdMilli(valences) ==
    LET n == Len(valences)
        v == [i \in 1..n |-> valences[i].num]
    IN  ISqrt((n * SumSquares(v) - SumSeq(v) * SumSeq(v)) * 100) \div n

Volatility(valences) ==
    IF Len(valences) > 1 THEN Rat(StdMilli(valences), 1000) ELSE Zero

\* the thresholds taken inclusively
PolarityInclusive(avg_sentiment) ==
    IF RatLE(Rat(2, 10), avg_sentiment) THEN "positive"
    ELSE IF RatLE(avg_sentiment, Rat(-2, 10)) THEN "negative"
    ELSE "neutral"

\* lines 142-147
Polarity(avg_sentiment) ==
    IF RatLT(Rat(2, 10), avg_sentiment) THEN "positive"
    ELSE IF RatLT(avg_sentiment, Rat(-2, 10)) THEN "negative"
    ELSE "neutral"

\* lines 166-167
CountAbove(scores) == Cardinality({ i \in 1..Len(scores) : RatLT(Rat(2, 10), scores[i]) })

CountBelow(scores) == Cardinality({ i \in 1..Len(scores) : RatLT(scores[i], Rat(-2, 10)) })

\* thousandths of a fraction, rounded down
Milli(r) == (r.num * 1000) \div r.den

\* line 196: -sum(p * log(p + 1e-10)), thousandths
RECURSIVE EntropyNum(_)
EntropyNum(dist) ==
    IF dist = <<>> THEN 0
    ELSE (IF dist[1].score.num > 0
          THEN dist[1].score.num * (0 - LogMilli(dist[1].score))
          ELSE 0) + EntropyNum(Tail(dist))

EntropyMilli(dist) == EntropyNum(dist) \div dist[1].score.den

\* the weighted sum returned as it is, without the clamp
ClipMissing(quality) == quality

\* line 207: np.clip(quality, 0, 1), thousandths
Clip(quality) == Max(0, Min(quality, 1000))

_calculate_quality_score(avg_sentiment, volatility, emotion_distribution) ==
    LET sentiment_component == Milli(Rat(avg_sentiment.num + avg_sentiment.den,
                                         2 * avg_sentiment.den))
        volatility_component == 1000 - Min((Milli(volatility) * 10) \div 15, 1000)
        entropy == EntropyMilli(emotion_distribution)
        max_entropy == LnMilli[Len(emotion_distribution)]
        diversity_component ==
            IF max_entropy > 0 THEN (entropy * 1000) \div max_entropy ELSE 0
        quality == (4 * sentiment_component + 3 * volatility_component
                    + 3 * diversity_component) \div 10
    IN  Rat(Clip(quality), 1000)

_calculate_engagement(arousals) ==
    LET avg_arousal == Mean(arousals)
    IN  IF RatLT(Rat(6, 10), avg_arousal) THEN "high"
        ELSE IF RatLT(Rat(3, 10), avg_arousal) THEN "medium"
        ELSE "low"

\* the dict of lines 154-176, for message_analyses that do not raise
_aggregate_analysis(message_analyses, txts) ==
    LET n == Len(message_analyses)
        valences == [i \in 1..n |-> message_analyses[i].valence]
        arousals == [i \in 1..n |-> message_analyses[i].arousal]
        sentiment_scores == [i \in 1..n |-> message_analyses[i].sentiment_score]
        emotion_distribution == EmotionDistribution(message_analyses)
        dominant_emotion == ArgMax(emotion_distribution)
        emotional_volatility == Volatility(valences)
        avg_sentiment == Mean(sentiment_scores)
    IN  [emotion |->
            [dominant_emotion |-> dominant_emotion,
             emotion_confidence |-> Lookup(emotion_distribution, dominant_emotion),
             emotion_distribution |-> emotion_distribution,
             average_valence |-> Mean(valences),
             average_arousal |-> Mean(arousals),
             emotional_volatility |-> emotional_volatility],
         sentiment |->
            [sentiment_polarity |-> Polarity(avg_sentiment),
             sentiment_score |-> avg_sentiment,
             positive_ratio |-> Rat(CountAbove(sentiment_scores), n),
             negative_ratio |-> Rat(CountBelow(sentiment_scores), n)],
         quality |->
            [conversation_quality_score |->
                _calculate_quality_score(avg_sentiment, emotional_volatility,
                                         emotion_distribution),
             message_count |-> n,
             engagement_level |-> _calculate_engagement(arousals),
             emotional_consistency |->
                Rat(1000 - Min(Milli(emotional_volatility) \div 2, 1000), 1000)],
         message_level_analysis |-> message_analyses]

\* lines 222-244: the dict display
EmptyAnalysisDict ==
    [emotion |->
        [dominant_emotion |-> "neutral",
         emotion_confidence |-> Zero,
         emotion_distribution |-> <<E("neutral", One)>>,
         average_valence |-> Zero,
         average_arousal |-> Zero,
         emotional_volatility |-> Zero],
     sentiment |->
        [sentiment_polarity |-> "neutral",
         sentiment_score |-> Zero,
         positive_ratio |-> Zero,
         negative_ratio |-> Zero],
     quality |->
        [conversation_quality_score |-> Zero,
         message_count |-> 0,
         engagement_level |-> "low",
         emotional_consistency |-> Zero],
     message_level_analysis |-> <<>>]

\* one dict built once and handed to every call: it holds what
\* _error_analysis stored in it for an earlier call
_empty_analysis_shared ==
    IF ~retained_error
    THEN EmptyAnalysisDict
    ELSE [emotion |-> EmptyAnalysisDict.emotion,
          sentiment |-> EmptyAnalysisDict.sentiment,
          quality |-> EmptyAnalysisDict.quality,
          message_level_analysis |-> EmptyAnalysisDict.message_level_analysis,
          error |-> "<message of an earlier call>"]

\* every call evaluates the dict display anew: the dict returned is no dict
\* an earlier call has stored into
_empty_analysis == EmptyAnalysisDict

\* result = self._empty_analysis(); result["error"] = error_msg
_error_analysis(error_msg) ==
    [emotion |-> _empty_analysis.emotion,
     sentiment |-> _empty_analysis.sentiment,
     quality |-> _empty_analysis.quality,
     message_level_analysis |-> _empty_analysis.message_level_analysis,
     error |-> error_msg]

\* lines 38-60 once both batches have returned: the dict the call returns
Analyze(es, ss, txts) ==
    IF LoopError(es, ss) # NoError THEN _error_analysis(LoopError(es, ss))
    ELSE IF AggregateError(MessageAnalyses(es, ss)) # NoError
         THEN _error_analysis(AggregateError(MessageAnalyses(es, ss)))
    ELSE _aggregate_analysis(MessageAnalyses(es, ss), txts)

(***************************************************************************)
(* The state machine.  One caller at a time walks through                  *)
(* analyze_conversation: the filter, the emotion batch, the sentiment      *)
(* batch followed by the reduction, and the return to the caller.  The     *)
(* analyzer and its models are one module-level instance (get_analyzer),   *)
(* so the load state of the models outlives the calls.                     *)
(***************************************************************************)
NoResult == [no_result |-> TRUE]

model_vars == <<emotion_classifier, sentiment_classifier, initialized>>

\* what the latest batch operation of the call in progress did
batch_vars == <<initialized_on_entry, load_attempted, classifier_invoked>>

Init ==
    /\ pc = "idle"
    /\ messages = <<>>
    /\ texts = <<>>
    /\ emotion_results = <<>>
    /\ sentiment_results = <<>>
    /\ outcome = "none"
    /\ result = NoResult
    /\ raised = NoError
    /\ provider_exception = NoError
    /\ provider_calls = <<>>
    /\ emotion_classifier = FALSE
    /\ sentiment_classifier = FALSE
    /\ initialized = FALSE
    /\ initialized_on_entry = FALSE
    /\ load_attempted = FALSE
    /\ classifier_invoked = "none"
    /\ retained_error = FALSE

\* the call ends by returning r
Returns(r) ==
    /\ pc' = "done"
    /\ outcome' = "returned"
    /\ result' = r
    /\ raised' = NoError

\* lines 28-31
Call(msgs) ==
    /\ pc = "idle"
    /\ messages' = msgs
    /\ UNCHANGED <<emotion_results, sentiment_results, provider_exception,
                   provider_calls, model_vars, batch_vars, retained_error>>
    /\ IF FilterRaises(msgs)
       THEN /\ pc' = "done"
            /\ outcome' = "raised"
            /\ raised' = "'NoneType' object has no attribute 'strip'"
            /\ UNCHANGED <<texts, result>>
       ELSE /\ texts' = FilterTexts(msgs)
            /\ IF FilterTexts(msgs) = <<>>
               THEN Returns(_empty_analysis)
               ELSE /\ pc' = "emotions"
                    /\ UNCHANGED <<outcome, result, raised>>

\* ml_models.py 74-86 and 88-100: the batch operation is entered
Invoke(op) ==
    /\ provider_calls' = Append(provider_calls, [op |-> op, n |-> Len(texts)])
    /\ initialized_on_entry' = initialized

\* lines 86 and 100 of ml_models.py: the pipeline of the operation is called
Classifier(op) == IF op = "emotions" THEN "emotion" ELSE "sentiment"

\* ml_models.py 19-68: _ensure_models_loaded returns
EnsureLoaded ==
    IF initialized
    THEN /\ UNCHANGED model_vars
         /\ load_attempted' = FALSE
    ELSE /\ emotion_classifier' = TRUE
         /\ sentiment_classifier' = TRUE
         /\ initialized' = TRUE
         /\ load_attempted' = TRUE

\* the flag of line 65 set ahead of the GPU report of lines 61-63
EnsureFailsFlagSet(stage) ==
    /\ ~initialized
    /\ emotion_classifier' = (emotion_classifier \/ stage # "emotion")
    /\ sentiment_classifier' = (sentiment_classifier \/ stage = "gpu_info")
    /\ initialized' = (stage = "gpu_info")
    /\ load_attempted' = TRUE

\* ml_models.py 28-72: the load raises before the emotion pipeline is set
\* ("emotion"), before the sentiment pipeline is set ("sentiment"), or in
\* the GPU report after both are set ("gpu_info"); the exception is re-raised
EnsureFails(stage) ==
    /\ ~initialized
    /\ emotion_classifier' = (emotion_classifier \/ stage # "emotion")
    /\ sentiment_classifier' = (sentiment_classifier \/ stage = "gpu_info")
    /\ initialized' = FALSE
    /\ load_attempted' = TRUE

LoadStages == { "emotion", "sentiment", "gpu_info" }

\* a batch operation fails to load the models: lines 58-60 contain it
BatchLoadFails(op) ==
    /\ pc = op
    /\ Invoke(op)
    /\ \E stage \in LoadStages : EnsureFails(stage)
    /\ classifier_invoked' = "none"
    /\ \E msg \in LoadErrors :
          /\ provider_exception' = msg
          /\ Returns(_error_analysis(msg))
    /\ UNCHANGED <<messages, texts, emotion_results, sentiment_results,
                   retained_error>>

\* the classifier itself raises: lines 58-60 contain it
BatchRaises(op) ==
    /\ pc = op
    /\ Invoke(op)
    /\ EnsureLoaded
    /\ classifier_invoked' = Classifier(op)
    /\ \E msg \in ProviderErrors :
          /\ provider_exception' = msg
          /\ Returns(_error_analysis(msg))
    /\ UNCHANGED <<messages, texts, emotion_results, sentiment_results,
                   retained_error>>

\* line 35
EmotionsBatch(es) ==
    /\ pc = "emotions"
    /\ Invoke("emotions")
    /\ EnsureLoaded
    /\ classifier_invoked' = Classifier("emotions")
    /\ emotion_results' = es
    /\ pc' = "sentiment"
    /\ UNCHANGED <<messages, texts, sentiment_results, outcome, result, raised,
                   provider_exception, retained_error>>

\* lines 36-60
SentimentBatch(ss) ==
    /\ pc = "sentiment"
    /\ Invoke("sentiment")
    /\ EnsureLoaded
    /\ classifier_invoked' = Classifier("sentiment")
    /\ sentiment_results' = ss
    /\ Returns(Analyze(emotion_results, ss, texts))
    /\ UNCHANGED <<messages, texts, emotion_results, provider_exception,
                   retained_error>>

\* whether the dict _empty_analysis built last holds an 'error' key, once
\* the call that returned r is over (lines 31 and 246-250; the dict of
\* line 154 is not built by _empty_analysis)
Retained(r) ==
    IF outcome = "returned" /\ r.message_level_analysis = <<>>
    THEN "error" \in DOMAIN r
    ELSE retained_error

\* the caller has the outcome; the next request may come in
NextRequest ==
    /\ pc = "done"
    /\ pc' = "idle"
    /\ messages' = <<>>
    /\ texts' = <<>>
    /\ emotion_results' = <<>>
    /\ sentiment_results' = <<>>
    /\ outcome' = "none"
    /\ result' = NoResult
    /\ raised' = NoError
    /\ provider_exception' = NoError
    /\ provider_calls' = <<>>
    /\ initialized_on_entry' = FALSE
    /\ load_attempted' = FALSE
    /\ classifier_invoked' = "none"
    /\ retained_error' = Retained(result)
    /\ UNCHANGED model_vars

Next ==
    \/ \E msgs \in MessageLists : Call(msgs)
    \/ \E op \in {"emotions", "sentiment"} : BatchLoadFails(op)
    \/ \E op \in {"emotions", "sentiment"} : BatchRaises(op)
    \/ \E es \in EmotionResultLists : EmotionsBatch(es)
    \/ \E ss \in SentimentResultLists : SentimentBatch(ss)
    \/ NextRequest

Spec == Init /\ [][Next]_vars

(***************************************************************************)
(* Properties.                                                             *)
(***************************************************************************)
Finished == pc = "done"

Returned == pc = "done" /\ outcome = "returned"

\* a returned dict that carries no 'error' key and is not the empty analysis
\* of an input without texts
NormalResult == Returned /\ texts # <<>> /\ "error" \notin DOMAIN result

\* both batch operations returned a list to analyze_conversation
BothReturned == Returned /\ Len(provider_calls) = 2 /\ provider_exception = NoError

\* the content is a string made of whitespace only (or the key is absent)
BlankMessage(msg) ==
    /\ get_content(msg).kind = "str"
    /\ \A j \in 1..Len(get_content(msg).chars) : get_content(msg).chars[j] = " "

AllBlank == \A i \in 1..Len(messages) : BlankMessage(messages[i])

NonBlankCount == Cardinality({ i \in 1..Len(messages) : ~BlankMessage(messages[i]) })

\* the canonical empty analysis, as section 4.2 of the specification lists it
CanonicalEmotion ==
    [dominant_emotion |-> "neutral", emotion_confidence |-> Rat(0, 1),
     emotion_distribution |-> <<[label |-> "neutral", score |-> Rat(1, 1)]>>,
     average_valence |-> Rat(0, 1), average_arousal |-> Rat(0, 1),
     emotional_volatility |-> Rat(0, 1)]

CanonicalSentiment ==
    [sentiment_polarity |-> "neutral", sentiment_score |-> Rat(0, 1),
     positive_ratio |-> Rat(0, 1), negative_ratio |-> Rat(0, 1)]

CanonicalQuality ==
    [conversation_quality_score |-> Rat(0, 1), message_count |-> 0,
     engagement_level |-> "low", emotional_consistency |-> Rat(0, 1)]

CanonicalEmpty ==
    [emotion |-> CanonicalEmotion, sentiment |-> CanonicalSentiment,
     quality |-> CanonicalQuality, message_level_analysis |-> <<>>]

\* the canonical empty analysis plus an 'error' field
IsErrorAnalysis(r) ==
    /\ DOMAIN r = DOMAIN CanonicalEmpty \cup {"error"}
    /\ \A k \in DOMAIN CanonicalEmpty : r[k] = CanonicalEmpty[k]

\* C1: analyze_conversation is total: whatever the message records and
\* whatever the provider does, the call ends by returning a result record
\* and never by raising to its caller.
C1_NeverRaises == Finished => outcome = "returned"

\* C2: when there is a non-blank message and a batch operation of the
\* provider raises, the call returns the canonical empty analysis plus an
\* 'error' field holding a non-empty diagnostic message.
C2_ProviderFailureContained ==
    (Finished /\ texts # <<>> /\ provider_exception # NoError) =>
        /\ outcome = "returned"
        /\ IsErrorAnalysis(result)
        /\ result.error # ""

\* C3: when the message list is empty or every content is blank, the call
\* returns exactly the canonical empty analysis without an 'error' field and
\* invokes neither batch operation; and no batch operation is ever invoked
\* with zero texts.
C3_EmptyInputCanonical ==
    /\ (pc # "idle" /\ AllBlank) =>
            /\ Returned
            /\ result = CanonicalEmpty
            /\ provider_calls = <<>>
    /\ \A i \in 1..Len(provider_calls) : provider_calls[i].n > 0

C3_Witness ==
    /\ Returned /\ AllBlank
    /\ \E i \in 1..Len(messages) : messages[i].has /\ messages[i].content.chars # <<>>
    /\ result = CanonicalEmpty

\* C4: when a list returned by the provider has a length different from the
\* number of filtered texts, the call returns the canonical empty analysis
\* with an 'error' field, never a normal analysis of a prefix.
C4_MismatchIsFailure ==
    (BothReturned /\ (Len(emotion_results) # Len(texts)
                      \/ Len(sentiment_results) # Len(texts))) =>
        IsErrorAnalysis(result)

\* C5: in every returned result, conversation_quality_score lies in [0, 1].
C5_QualityInUnitInterval ==
    Returned =>
        /\ RatLE(Rat(0, 1), result.quality.conversation_quality_score)
        /\ RatLE(result.quality.conversation_quality_score, Rat(1, 1))

AllZero(d) == d # <<>> /\ \A i \in 1..Len(d) : d[i].score = 0

C5_Witness ==
    /\ NormalResult
    /\ \E i \in 1..Len(result.message_level_analysis) :
          AllZero(result.message_level_analysis[i].emotion_scores)
    /\ RatLT(Rat(0, 1), result.quality.conversation_quality_score)

\* score of label l in the i-th message record, 0 when the record lacks it
ScoreIn(i, l) ==
    LET d == result.message_level_analysis[i].emotion_scores
    IN  IF \E j \in 1..Len(d) : d[j].label = l
        THEN d[CHOOSE j \in 1..Len(d) : d[j].label = l].score ELSE 0

RECURSIVE LabelSum(_, _)
LabelSum(l, n) == IF n = 0 THEN 0 ELSE ScoreIn(n, l) + LabelSum(l, n - 1)

RECURSIVE RecordTotal(_)
RecordTotal(d) == IF d = <<>> THEN 0 ELSE d[1].score + RecordTotal(Tail(d))

RECURSIVE GrandTotal(_)
GrandTotal(n) ==
    IF n = 0 THEN 0
    ELSE RecordTotal(result.message_level_analysis[n].emotion_scores) + GrandTotal(n - 1)

ObservedLabels ==
    UNION { { result.message_level_analysis[i].emotion_scores[j].label :
                j \in 1..Len(result.message_level_analysis[i].emotion_scores) } :
            i \in 1..Len(result.message_level_analysis) }

\* C6: in a normal result the emotion distribution has exactly the labels
\* of the messages' score maps as keys, each value is the label's score
\* summed over the messages divided by the grand total over all labels and
\* messages, and the values sum to 1.
C6_DistributionRenormalized ==
    NormalResult =>
        LET dist == result.emotion.emotion_distribution
            n == Len(result.message_level_analysis)
        IN  /\ { dist[i].label : i \in 1..Len(dist) } = ObservedLabels
            /\ Cardinality(ObservedLabels) = Len(dist)
            /\ GrandTotal(n) > 0
            /\ \A i \in 1..Len(dist) :
                  /\ dist[i].score.den > 0
                  /\ RatEq(dist[i].score, Rat(LabelSum(dist[i].label, n), GrandTotal(n)))
            /\ RatEq(RatSum([i \in 1..Len(dist) |-> dist[i].score]), Rat(1, 1))

C6_Witness ==
    /\ NormalResult
    /\ Len(result.message_level_analysis) = 2
    /\ Len(result.emotion.emotion_distribution) = 3
    /\ \E i \in 1..3 :
          /\ result.emotion.emotion_distribution[i].label = "sadness"
          /\ RatEq(result.emotion.emotion_distribution[i].score, Rat(1, 2))

CanonicalOrder ==
    <<"anger", "disgust", "fear", "joy", "neutral", "sadness", "surprise">>

Rank(l) == CHOOSE i \in 1..Len(CanonicalOrder) : CanonicalOrder[i] = l

\* l has a maximal value in dict d, and no label of the same value comes
\* before it in the canonical order
CanonicalFirstMax(d, l) ==
    \E i \in 1..Len(d) :
        /\ d[i].label = l
        /\ \A j \in 1..Len(d) : ~RatLT(d[i].score, d[j].score)
        /\ \A j \in 1..Len(d) :
              (~RatLT(d[j].score, d[i].score)) => Rank(d[i].label) <= Rank(d[j].label)

\* C7: the dominant emotion of each message and of the conversation is a
\* label of maximum score, and among several such labels the first in the
\* order anger, disgust, fear, joy, neutral, sadness, surprise.
C7_CanonicalTieBreak ==
    NormalResult =>
        /\ \A i \in 1..Len(result.message_level_analysis) :
              CanonicalFirstMax(Tenths(result.message_level_analysis[i].emotion_scores),
                                result.message_level_analysis[i].emotion)
        /\ CanonicalFirstMax(result.emotion.emotion_distribution,
                             result.emotion.dominant_emotion)

\* C8: an empty emotion score map for a message yields a message record with
\* dominant emotion 'neutral', confidence 0, valence 0 and arousal 0, not an
\* error.
C8_EmptyMapIsNeutral ==
    \A i \in 1..Len(emotion_results) :
        (BothReturned /\ i <= Len(sentiment_results) /\ emotion_results[i] = <<>>) =>
            /\ "error" \notin DOMAIN result
            /\ Len(result.message_level_analysis) >= i
            /\ result.message_level_analysis[i].emotion = "neutral"
            /\ RatEq(result.message_level_analysis[i].emotion_confidence, Rat(0, 1))
            /\ RatEq(result.message_level_analysis[i].valence, Rat(0, 1))
            /\ RatEq(result.message_level_analysis[i].arousal, Rat(0, 1))

\* the normalized score of one sentiment result, in tenths
SignedTenths(sentiment) ==
    IF sentiment.label \in {"positive", "POSITIVE"} THEN sentiment.score
    ELSE IF sentiment.label \in {"negative", "NEGATIVE"} THEN 0 - sentiment.score
    ELSE 0

RECURSIVE SignedSum(_)
SignedSum(n) ==
    IF n = 0 THEN 0 ELSE SignedTenths(sentiment_results[n]) + SignedSum(n - 1)

\* C9: the polarity is 'positive' iff the mean of the per-message normalized
\* sentiment scores exceeds 0.2, 'negative' iff it is below -0.2, and
\* 'neutral' otherwise (so also at exactly 0.2 and -0.2); the normalized
\* score is +confidence, -confidence or 0 by label.
C9_PolarityStrictThresholds ==
    NormalResult =>
        LET n == Len(result.message_level_analysis)
            polarity == result.sentiment.sentiment_polarity
        IN  /\ \A i \in 1..n :
                  RatEq(result.message_level_analysis[i].sentiment_score,
                        Rat(SignedTenths(sentiment_results[i]), 10))
            /\ RatEq(result.sentiment.sentiment_score, Rat(SignedSum(n), 10 * n))
            /\ polarity = "positive" <=> SignedSum(n) > 2 * n
            /\ polarity = "negative" <=> SignedSum(n) < 0 - 2 * n
            /\ polarity = "neutral" <=> (SignedSum(n) <= 2 * n /\ SignedSum(n) >= 0 - 2 * n)

C9_Witness ==
    /\ NormalResult
    /\ RatEq(result.sentiment.sentiment_score, Rat(2, 10))
    /\ result.sentiment.sentiment_polarity = "neutral"
    /\ \E i \in 1..Len(sentiment_results) : sentiment_results[i].label = "neutral"

\* C10: the message-level list holds exactly one record per non-blank
\* message, numbered 0, 1, ... in the filtered order, and message_count is
\* the number of non-blank messages.
C10_OneRecordPerText ==
    NormalResult =>
        /\ Len(result.message_level_analysis) = NonBlankCount
        /\ \A i \in 1..Len(result.message_level_analysis) :
              result.message_level_analysis[i].message_index = i - 1
        /\ result.quality.message_count = NonBlankCount

\* C11: a conversation with exactly one non-blank message has an emotional
\* volatility of exactly 0.0, whatever the valence of the message, and an
\* emotional consistency of exactly 1.0.
C11_SingleMessageVolatilityZero ==
    (NormalResult /\ NonBlankCount = 1) =>
        /\ RatEq(result.emotion.emotional_volatility, Zero)
        /\ RatEq(result.quality.emotional_consistency, One)

\* str() of what the call in progress itself ran into: the exception of one
\* of its batch operations, or of its own loop or reduction
OwnError ==
    IF provider_exception # NoError THEN provider_exception
    ELSE IF ~BothReturned THEN NoError
    ELSE IF LoopError(emotion_results, sentiment_results) # NoError
         THEN LoopError(emotion_results, sentiment_results)
    ELSE AggregateError(MessageAnalyses(emotion_results, sentiment_results))

\* the result as a function of the call's own message list and of what the
\* provider did in this call
OwnResult ==
    IF texts = <<>> THEN CanonicalEmpty
    ELSE IF OwnError # NoError
         THEN [emotion |-> CanonicalEmotion, sentiment |-> CanonicalSentiment,
               quality |-> CanonicalQuality, message_level_analysis |-> <<>>,
               error |-> OwnError]
    ELSE _aggregate_analysis(
             MessageAnalyses(emotion_results, sentiment_results), texts)

LoadFailed == load_attempted /\ classifier_invoked = "none"

\* a batch operation got past its empty-input return in this call
BatchEntered == provider_calls # <<>>

\* C13: _initialized is true only if both classifiers are loaded; a
\* classifier is invoked only when _initialized is true (and it is loaded);
\* a load that fails, even after the emotion classifier was set, leaves
\* _initialized false and its exception leaves the batch operation, so that
\* a batch operation entered with _initialized false attempts the load, and
\* a batch operation entered with _initialized true performs no load.
C13_LazyLoading ==
    /\ initialized => (emotion_classifier /\ sentiment_classifier)
    /\ classifier_invoked = "emotion" => (initialized /\ emotion_classifier)
    /\ classifier_invoked = "sentiment" => (initialized /\ sentiment_classifier)
    /\ LoadFailed => (~initialized /\ provider_exception \in LoadErrors)
    /\ (BatchEntered /\ ~initialized_on_entry) => load_attempted
    /\ (BatchEntered /\ initialized_on_entry) => ~load_attempted

\* a load failed after the emotion classifier was set
C13_Witness ==
    /\ LoadFailed
    /\ emotion_classifier
    /\ ~sentiment_classifier
    /\ ~initialized_on_entry

====
